---- MODULE Spec2Model ----
(***************************************************************************)
(* Fitbit Google Takeout -> Garmin FIT weight converter.                   *)
(*                                                                         *)
(* The module models                                                       *)
(*   - backend/converter.py: FitbitConverter (validate_google_takeout_-    *)
(*     format, extract_week_year_from_filename, process_json_data,         *)
(*     get_output_filename) and convert_fitbit_to_garmin;                  *)
(*   - tested/convert_json_to_fit.py: convert_date_to_unix_timestamp,      *)
(*     get_week_number_from_filename, create_fit_file_from_json;           *)
(*   - backend/main.py: upload_files, convert_files, download_file and     *)
(*     the stores uploaded_files and converted_files.                      *)
(*                                                                         *)
(* Specifications.                                                         *)
(*   - Spec: one call of the converter, or of the script, on one file.     *)
(*   - SpecBatch: one call of convert_fitbit_to_garmin on a batch.         *)
(*   - SpecService: requests to /upload, /convert and /download.           *)
(*   - SpecDownload: /download over the stores a conversion leaves.        *)
(*                                                                         *)
(* Representation.                                                         *)
(*   - A Python str is a TLA+ string in the state; the string functions    *)
(*     (replace, split, int, strptime, the `in` substring test) work on    *)
(*     its characters, chars(s).                                           *)
(*   - pounds are tenths of a pound, kilograms tenths of a kilogram and    *)
(*     body fat hundredths of a percent on input, tenths on output, so     *)
(*     that round(x, 1) is an integer computation.                         *)
(*   - A FIT message is the sequence of its field assignments, in the      *)
(*     order the code makes them; the builder is the sequence of the       *)
(*     messages added to it, and the bytes of a file are that sequence.    *)
(*   - A raised exception is a value of `raised` ("ValueError", ...).      *)
(*   - An upload_id or conversion_id is the position of its entry in the   *)
(*     store: uuid4 gives an id no entry has yet.  An output file name is  *)
(*     the tuple of its parts, and a download URL the pair of the          *)
(*     conversion_id and the name.                                         *)
(***************************************************************************)
EXTENDS Integers, Sequences, FiniteSets, TLC

\* Largest number of records in one input file.
MaxLen == 2
\* Largest number of input files in one batch.
MaxBatch == 3

----------------------------------------------------------------------------
(* Python str: the characters of the strings the inputs are drawn from.    *)

chars(s) ==
  CASE s = "" -> <<>>
  [] s = "logId" -> <<"l","o","g","I","d">>
  [] s = "weight" -> <<"w","e","i","g","h","t">>
  [] s = "date" -> <<"d","a","t","e">>
  [] s = "time" -> <<"t","i","m","e">>
  [] s = "fat" -> <<"f","a","t">>
  [] s = "foo" -> <<"f","o","o">>
  [] s = ".json" -> <<".","j","s","o","n">>
  [] s = "logId weight date time" ->
       <<"l","o","g","I","d"," ","w","e","i","g","h","t"," ",
         "d","a","t","e"," ","t","i","m","e">>
  [] s = "weight date" -> <<"w","e","i","g","h","t"," ","d","a","t","e">>
  [] s = "weight-2024-06-01.json" ->
       <<"w","e","i","g","h","t","-","2","0","2","4","-","0","6","-","0","1",
         ".","j","s","o","n">>
  [] s = "weight-2024-12-30.json" ->
       <<"w","e","i","g","h","t","-","2","0","2","4","-","1","2","-","3","0",
         ".","j","s","o","n">>
  [] s = "weight-2024-13-01.json" ->
       <<"w","e","i","g","h","t","-","2","0","2","4","-","1","3","-","0","1",
         ".","j","s","o","n">>
  [] s = "weight-2021-01-01.json" ->
       <<"w","e","i","g","h","t","-","2","0","2","1","-","0","1","-","0","1",
         ".","j","s","o","n">>
  [] s = "weight-2024-06-02.json" ->
       <<"w","e","i","g","h","t","-","2","0","2","4","-","0","6","-","0","2",
         ".","j","s","o","n">>
  [] s = "export.json" -> <<"e","x","p","o","r","t",".","j","s","o","n">>
  [] s = "export.txt" -> <<"e","x","p","o","r","t",".","t","x","t">>
  [] s = "06/01/24" -> <<"0","6","/","0","1","/","2","4">>
  [] s = "6/1/24" -> <<"6","/","1","/","2","4">>
  [] s = "bad" -> <<"b","a","d">>
  [] s = "01/01/70" -> <<"0","1","/","0","1","/","7","0">>
  [] s = "01/02/70" -> <<"0","1","/","0","2","/","7","0">>
  [] s = "1/2/1970" -> <<"1","/","2","/","1","9","7","0">>
  [] s = "12/31/69" -> <<"1","2","/","3","1","/","6","9">>
  [] s = "13/01/70" -> <<"1","3","/","0","1","/","7","0">>
  [] s = "02/30/70" -> <<"0","2","/","3","0","/","7","0">>
  [] s = "00:00:00" -> <<"0","0",":","0","0",":","0","0">>
  [] s = "08:00:00" -> <<"0","8",":","0","0",":","0","0">>
  [] s = "8am" -> <<"8","a","m">>

\* c[from..] starts with the characters p.
StartsWithAt(c, p, from) ==
  /\ from + Len(p) - 1 <= Len(c)
  /\ \A j \in 1..Len(p) : c[from + j - 1] = p[j]

\* Python `p in c` for two str.
IsSubstring(p, c) == \E from \in 1..(Len(c) + 1) : StartsWithAt(c, p, from)

\* Python str.replace(old, ""): every occurrence of old, left to right, removed.
RECURSIVE RemoveAll(_, _)
RemoveAll(c, old) ==
  IF c = <<>> THEN <<>>
  ELSE IF StartsWithAt(c, old, 1)
       THEN RemoveAll(SubSeq(c, Len(old) + 1, Len(c)), old)
       ELSE <<c[1]>> \o RemoveAll(Tail(c), old)

\* Python str.split(sep) for a one-character sep: the sequence of the parts.
RECURSIVE Split(_, _)
Split(c, sep) ==
  IF \A j \in 1..Len(c) : c[j] # sep THEN <<c>>
  ELSE LET at == CHOOSE j \in 1..Len(c) :
                   c[j] = sep /\ \A h \in 1..(j - 1) : c[h] # sep
       IN <<SubSeq(c, 1, at - 1)>> \o Split(SubSeq(c, at + 1, Len(c)), sep)

Digits == {"0","1","2","3","4","5","6","7","8","9"}

DigitValue(d) ==
  CASE d = "0" -> 0 [] d = "1" -> 1 [] d = "2" -> 2 [] d = "3" -> 3
    [] d = "4" -> 4 [] d = "5" -> 5 [] d = "6" -> 6 [] d = "7" -> 7
    [] d = "8" -> 8 [] d = "9" -> 9

AllDigits(c) == c # <<>> /\ \A j \in 1..Len(c) : c[j] \in Digits

\* The number a string of digits writes.
RECURSIVE DecimalValue(_)
DecimalValue(c) ==
  IF c = <<>> THEN 0
  ELSE 10 * DecimalValue(SubSeq(c, 1, Len(c) - 1)) + DigitValue(c[Len(c)])

\* Python int(str): -1 stands for the ValueError of a str that is no number
\* (the inputs hold no signs, blanks or underscores).
ParseInt(c) == IF AllDigits(c) THEN DecimalValue(c) ELSE -1

----------------------------------------------------------------------------
(* datetime: the proleptic Gregorian calendar of Python's datetime module. *)

IsLeap(y) == y % 4 = 0 /\ (y % 100 # 0 \/ y % 400 = 0)

DaysInMonth(y, m) ==
  CASE m \in {1, 3, 5, 7, 8, 10, 12} -> 31
    [] m \in {4, 6, 9, 11} -> 30
    [] m = 2 -> IF IsLeap(y) THEN 29 ELSE 28

\* datetime(year, month, day) raises ValueError unless this holds.
ValidDate(y, m, d) ==
  /\ y \in 1..9999
  /\ m \in 1..12
  /\ d >= 1
  /\ d <= DaysInMonth(y, m)

RECURSIVE DaysBeforeMonth(_, _)
DaysBeforeMonth(y, m) ==
  IF m = 1 THEN 0 ELSE DaysBeforeMonth(y, m - 1) + DaysInMonth(y, m - 1)

DaysBeforeYear(y) ==
  (y - 1) * 365 + (y - 1) \div 4 - (y - 1) \div 100 + (y - 1) \div 400

\* date.toordinal(): 1 is 0001-01-01.
Ymd2Ord(y, m, d) == DaysBeforeYear(y) + DaysBeforeMonth(y, m) + d

\* The ordinal of the Monday that starts ISO week 1 of year y.
IsoWeek1Monday(y) ==
  LET firstday == Ymd2Ord(y, 1, 1)
      firstweekday == (firstday + 6) % 7
      week1monday == firstday - firstweekday
  IN IF firstweekday > 3 THEN week1monday + 7 ELSE week1monday

\* date.isocalendar()[1]: the ISO 8601 week number.
IsoWeek(y, m, d) ==
  LET today == Ymd2Ord(y, m, d)
      week == (today - IsoWeek1Monday(y)) \div 7
  IN IF week < 0 THEN (today - IsoWeek1Monday(y - 1)) \div 7 + 1
     ELSE IF week >= 52 /\ today >= IsoWeek1Monday(y + 1) THEN 1
     ELSE week + 1

----------------------------------------------------------------------------
(* datetime.strptime, for the three formats the code uses.  A parse that    *)
(* raises ValueError is <<>>; a date is <<year, month, day>>, a time of     *)
(* day <<hour, minute, second>>.  The inputs hold no blanks, so the date    *)
(* and the time-of-day halves of "%m/%d/%y %H:%M:%S" match separately.      *)

\* A part matches a directive of at most two digits with a value in lo..hi
\* (%m: 1[0-2]|0[1-9]|[1-9], %d: 3[01]|[12]\d|0[1-9]|[1-9], %H, %M, %S).
MatchesNumber(p, lo, hi) ==
  AllDigits(p) /\ Len(p) <= 2 /\ DecimalValue(p) >= lo /\ DecimalValue(p) <= hi

\* %y is exactly two digits: 69..99 are 1969..1999 and 00..68 are 2000..2068.
\* %Y is exactly four digits.
ParseYear(p, yearDigits) ==
  IF ~(AllDigits(p) /\ Len(p) = yearDigits) THEN -1
  ELSE IF yearDigits = 4 THEN DecimalValue(p)
  ELSE IF DecimalValue(p) >= 69 THEN 1900 + DecimalValue(p)
  ELSE 2000 + DecimalValue(p)

\* strptime(date_str, "%m/%d/%y") (yearDigits = 2) or "%m/%d/%Y" (4).
StrptimeDate(c, yearDigits) ==
  LET parts == Split(c, "/")
  IN IF Len(parts) # 3 THEN <<>>
     ELSE IF ~MatchesNumber(parts[1], 1, 12) THEN <<>>
     ELSE IF ~MatchesNumber(parts[2], 1, 31) THEN <<>>
     ELSE LET y == ParseYear(parts[3], yearDigits)
              m == DecimalValue(parts[1])
              d == DecimalValue(parts[2])
          IN IF y < 0 THEN <<>>
             ELSE IF ~ValidDate(y, m, d) THEN <<>>
             ELSE <<y, m, d>>

\* strptime(time_str, "%H:%M:%S").
StrptimeTime(c) ==
  LET parts == Split(c, ":")
  IN IF Len(parts) # 3 THEN <<>>
     ELSE IF ~MatchesNumber(parts[1], 0, 23) THEN <<>>
     ELSE IF ~MatchesNumber(parts[2], 0, 59) THEN <<>>
     ELSE IF ~MatchesNumber(parts[3], 0, 59) THEN <<>>
     ELSE <<DecimalValue(parts[1]), DecimalValue(parts[2]), DecimalValue(parts[3])>>

\* The ordinal of 1970-01-01.
EpochOrdinal == 719163

----------------------------------------------------------------------------
(* tested/convert_json_to_fit.py: the pure functions.                      *)

\* Python None, for the values that are a sequence when they are not None.
None == <<>>

\* date_str.split('/')[2] raises IndexError, which the function's
\* `except ValueError` does not catch.
DateIndexError(date_str) == Len(Split(chars(date_str), "/")) < 3

\* convert_date_to_unix_timestamp, when it returns: <<milliseconds since
\* 1970-01-01 UTC>>, or None after a ValueError.
convert_date_to_unix_timestamp(date_str, time_str) ==
  LET c == chars(date_str)
      yearDigits == IF Len(Split(c, "/")[3]) = 2 THEN 2 ELSE 4
      date == StrptimeDate(c, yearDigits)
      tod == StrptimeTime(chars(time_str))
  IN IF date = <<>> \/ tod = <<>> THEN None
     ELSE LET days == Ymd2Ord(date[1], date[2], date[3]) - EpochOrdinal
              timestamp == days * 86400 + tod[1] * 3600 + tod[2] * 60 + tod[3]
          IN <<timestamp * 1000>>

\* Python truthiness of the returned value: None and 0 are false.
Truthy(ts) == ts # None /\ ts[1] # 0

\* round(pounds / 2.2046, 1), pounds in tenths of a pound, the result in
\* tenths of a kilogram (no input is halfway between two tenths).
MutConvertPoundsWrongFactor(pounds) ==
  (pounds * 20000 + 22406) \div (2 * 22406)

convert_pounds_to_kg(pounds) == (pounds * 20000 + 22046) \div (2 * 22046)

\* Hundredths whose IEEE double lies above the decimal they write: round()
\* rounds the double, so these halves go up and the other inexact ones down.
\* 0.25, 0.75, ... are exact doubles and go to the even tenth.
DoubleAbove == {5, 45, 55, 65, 105}

\* round(body_fat, 1), body_fat in hundredths, the result in tenths.
round1(h) ==
  LET q == h \div 10
      r == h % 10
  IN IF r < 5 THEN q
     ELSE IF r > 5 THEN q + 1
     ELSE IF h % 25 = 0 THEN (IF q % 2 = 0 THEN q ELSE q + 1)
     ELSE IF h \in DoubleAbove THEN q + 1
     ELSE q

\* get_week_number_from_filename: <<week, year>> for the str "week-year",
\* None, or <<-1>> for the ValueError that int() or datetime() raises.
get_week_number_from_filename(filename) ==
  LET last == Split(chars(filename), "/")
      base_name == RemoveAll(last[Len(last)], chars(".json"))
      parts == Split(base_name, "-")
  IN IF Len(parts) >= 4
     THEN LET year == ParseInt(parts[2])
              month == ParseInt(parts[3])
              day == ParseInt(parts[4])
          IN IF year < 0 \/ month < 0 \/ day < 0 THEN <<-1>>
             ELSE IF ~ValidDate(year, month, day) THEN <<-1>>
             ELSE <<IsoWeek(year, month, day), year>>
     ELSE None

----------------------------------------------------------------------------
(* backend/converter.py: the pure functions of FitbitConverter.            *)

\* extract_week_year_from_filename: <<week, year>> for the str
\* "week-year", or None (also after a caught ValueError).
extract_week_year_from_filename(filename) ==
  LET base_name == RemoveAll(chars(filename), chars(".json"))
      parts == Split(base_name, "-")
  IN IF Len(parts) >= 4 /\ parts[1] = chars("weight")
     THEN LET year == ParseInt(parts[2])
              month == ParseInt(parts[3])
              day == ParseInt(parts[4])
          IN IF year < 0 \/ month < 0 \/ day < 0 THEN None
             ELSE IF ~ValidDate(year, month, day) THEN None
             ELSE <<IsoWeek(year, month, day), year>>
     ELSE None

\* get_output_filename: <<"Weight", week, year, "Fitbit.fit">> is
\* "Weight {week}-{year} Fitbit.fit".
FallbackName == <<"Weight Converted Fitbit.fit">>

WeekName(week_year) == <<"Weight", week_year[1], week_year[2], "Fitbit.fit">>

get_output_filename(input_filename) ==
  LET week_year == extract_week_year_from_filename(input_filename)
  IN IF week_year # None THEN WeekName(week_year) ELSE FallbackName

----------------------------------------------------------------------------
(* JSON values.  An element of the uploaded array is a record               *)
(*   type    "dict", "str", "list" or "int"                                 *)
(*   keys    the keys of a dict                                             *)
(*   text    the value of a str                                             *)
(*   elems   the elements of a list (of str)                                *)
(*   logId, weight, fat, date, time   the values of a dict's keys           *)
(* and the parsed file is [type, items]: a "list" of elements, or a         *)
(* "dict" or "null" with no items.                                          *)

RequiredFields == <<"logId", "weight", "date", "time">>

DictEntry(logId, weight, fat, date, time) ==
  [type |-> "dict",
   keys |-> {"logId", "weight", "date", "time"} \cup
            (IF fat >= 0 THEN {"fat"} ELSE {}),
   text |-> "", elems |-> {},
   logId |-> logId, weight |-> weight, fat |-> IF fat >= 0 THEN fat ELSE 0,
   date |-> date, time |-> time]

OtherEntry(type, keys, text, elems) ==
  [type |-> type, keys |-> keys, text |-> text, elems |-> elems,
   logId |-> 0, weight |-> 0, fat |-> 0, date |-> "", time |-> ""]

\* logId values (epoch timestamps), weights in tenths of a pound and body
\* fat in hundredths of a percent (-1: the record has no "fat" key).
LogIds == {1, 2}
Weights == {1800, 1503}
Fats == {-1, 0, 4, 5, 25}

\* The records of the web-service inputs: every logId with every weight,
\* every logId with every body fat value, and one with no parsable date.
WebRecords ==
  {DictEntry(l, w, -1, "06/01/24", "08:00:00") : l \in LogIds, w \in Weights}
  \cup {DictEntry(l, 1800, f, "06/01/24", "08:00:00") : l \in LogIds, f \in Fats}
  \cup {DictEntry(1, 1800, -1, "bad", "08:00:00")}

\* Elements that are no weight record: {"foo": 1}, a record with no logId,
\* two str, a list of str and a number.
Malformed ==
  {OtherEntry("dict", {"foo"}, "", {}),
   OtherEntry("dict", {"weight", "date", "time"}, "", {}),
   OtherEntry("str", {}, "logId weight date time", {}),
   OtherEntry("str", {}, "weight date", {}),
   OtherEntry("list", {}, "", {"logId", "weight", "date", "time"}),
   OtherEntry("int", {}, "", {})}

\* The records of the command-line script's inputs, told apart by date,
\* time of day and body fat.
ScriptRecords ==
  {DictEntry(1, 1800, -1, d, t) :
     d \in {"01/01/70", "01/02/70", "1/2/1970", "12/31/69", "13/01/70"},
     t \in {"00:00:00", "08:00:00"}}
  \cup {DictEntry(1, 1503, f, "01/02/70", "08:00:00") : f \in {0, 5}}
  \cup {DictEntry(1, 1800, -1, "01/02/70", "8am"),
        DictEntry(1, 1800, -1, "bad", "08:00:00")}

ListsOf(S, n) == UNION {[1..m -> S] : m \in 0..n}

JsonList(items) == [type |-> "list", items |-> items]

WebData ==
  {JsonList(items) : items \in ListsOf(WebRecords \cup Malformed, MaxLen)}
  \cup {[type |-> "dict", items |-> <<>>], [type |-> "null", items |-> <<>>]}

ScriptData == {JsonList(items) : items \in ListsOf(ScriptRecords, MaxLen)}

WebNames == {"weight-2024-06-01.json", "weight-2024-13-01.json", "export.json"}

ScriptNames == {"weight-2024-12-30.json", "weight-2024-13-01.json", "export.json"}

File(filename, json_data) == [filename |-> filename, json_data |-> json_data]

----------------------------------------------------------------------------
(* The state.                                                               *)

VARIABLES
  path,             \* "web": convert_fitbit_to_garmin; "script": create_fit_file_from_json
  json_files,       \* the argument: the batch of (filename, json_data)
  conversion_count, \* FitbitConverter.conversion_count
  results,          \* convert_fitbit_to_garmin's results; the files the script wrote
  idx,              \* the position of the for loop over json_files
  pc,               \* the statement the run is at
  week_year,        \* process_json_data's and the script's local week_year
  builder,          \* the messages added to the FitFileBuilder, in order
  weight_entries,   \* the local list weight_entries
  k,                \* the position of the loop over the records
  fit_bytes,        \* the value process_json_data returns: <<bytes>>, or None
  raised,           \* the exception that left the call, "" when none did
  returned,         \* the value the call returned: <<value>>, or None
  uploaded_files,   \* main.uploaded_files: upload_id -> file_data
  converted_files,  \* main.converted_files: conversion_id -> [(name, bytes)]
  request,          \* the request the service handled last
  response          \* the response the service gave to it

\* The state of the web service around the converter.
service == <<uploaded_files, converted_files, request, response>>

vars == <<path, json_files, conversion_count, results, idx, pc, week_year,
          builder, weight_entries, k, fit_bytes, raised, returned,
          uploaded_files, converted_files, request, response>>

filename == json_files[idx].filename
json_data == json_files[idx].json_data

----------------------------------------------------------------------------
(* FitbitConverter.validate_google_takeout_format.                         *)

\* Python `field in first_entry`: a key of a dict, a substring of a str, an
\* element of a list; "TypeError" for a number, which is no container.
FieldIn(field, entry) ==
  CASE entry.type = "dict" -> IF field \in entry.keys THEN "True" ELSE "False"
    [] entry.type = "str" ->
         IF IsSubstring(chars(field), chars(entry.text)) THEN "True" ELSE "False"
    [] entry.type = "list" -> IF field \in entry.elems THEN "True" ELSE "False"
    [] OTHER -> "TypeError"

\* all(field in first_entry for field in required_fields): the first test
\* that is not True decides.
RECURSIVE AllFieldsIn(_, _)
AllFieldsIn(fields, entry) ==
  IF fields = <<>> THEN "True"
  ELSE IF FieldIn(Head(fields), entry) # "True" THEN FieldIn(Head(fields), entry)
  ELSE AllFieldsIn(Tail(fields), entry)

\* "True", "False", or "TypeError" when the test itself raises.
validate_google_takeout_format(data) ==
  IF data.type # "list" \/ data.items = <<>> THEN "False"
  ELSE AllFieldsIn(RequiredFields, data.items[1])

----------------------------------------------------------------------------
(* The FIT messages.  names is the order in which the code assigns the      *)
(* fields, values the values assigned (product_name's, a str, is held in    *)
(* the record's own product_name).                                          *)

\* FileIdMessage with type, manufacturer, product, product_name,
\* serial_number and number set, and time_created when it is given.
MutFileIdNoTimeCreated(time_created) ==
  [kind |-> "file_id",
   names |-> <<"type", "manufacturer", "product", "product_name",
               "serial_number", "number">>,
   values |-> <<4, 255, 1, 0, 1701, 0>>,
   product_name |-> "Health Sync"]

FileIdMessage(time_created) ==
  [kind |-> "file_id",
   names |-> <<"type", "manufacturer", "product", "product_name",
               "serial_number", "number">> \o
             (IF time_created = None THEN <<>> ELSE <<"time_created">>),
   values |-> <<4, 255, 1, 0, 1701, 0>> \o time_created,
   product_name |-> "Health Sync"]

\* body_fat = entry.get('fat', 0.0); None when it is 0.0, else round(body_fat, 1).
MutBodyFatKeepsZero(entry) ==
  IF "fat" \in entry.keys THEN <<round1(entry.fat)>> ELSE None

body_fat(entry) ==
  LET fat == IF "fat" \in entry.keys THEN entry.fat ELSE 0
  IN IF fat = 0 THEN None ELSE <<round1(fat)>>

\* WeightScaleMessage as both files fill it: percent_fat is assigned after
\* muscle_mass, and only when body_fat is not None.
MutFatAssignedLast(unix_timestamp, entry) ==
  [kind |-> "weight_scale",
   names |-> <<"timestamp", "weight", "bone_mass", "muscle_mass",
               "percent_hydration">> \o
             (IF body_fat(entry) = None THEN <<>> ELSE <<"percent_fat">>),
   values |-> <<unix_timestamp, convert_pounds_to_kg(entry.weight), 0, 0, 0>> \o
              body_fat(entry),
   product_name |-> ""]

WeightScaleMessage(unix_timestamp, entry) ==
  [kind |-> "weight_scale",
   names |-> <<"timestamp", "weight", "bone_mass", "muscle_mass">> \o
             (IF body_fat(entry) = None THEN <<>> ELSE <<"percent_fat">>) \o
             <<"percent_hydration">>,
   values |-> <<unix_timestamp, convert_pounds_to_kg(entry.weight), 0, 0>> \o
              body_fat(entry) \o <<0>>,
   product_name |-> ""]

\* The value of a message's field (the message has it).
Field(msg, name) ==
  msg.values[CHOOSE j \in 1..Len(msg.names) : msg.names[j] = name]

HasField(msg, name) == \E j \in 1..Len(msg.names) : msg.names[j] = name

\* list.sort(key=lambda x: x.timestamp): stable, ascending.  Each message is
\* inserted after the messages whose timestamp is not greater.
RECURSIVE Insert(_, _)
Insert(sorted, msg) ==
  IF sorted = <<>> THEN <<msg>>
  ELSE IF Field(Head(sorted), "timestamp") <= Field(msg, "timestamp")
       THEN <<Head(sorted)>> \o Insert(Tail(sorted), msg)
       ELSE <<msg>> \o sorted

RECURSIVE MutSortUnstable(_)
MutSortUnstable(entries) ==
  IF entries = <<>> THEN <<>>
  ELSE LET rest == MutSortUnstable(Tail(entries))
           before == SelectSeq(rest, LAMBDA m :
                       Field(m, "timestamp") <= Field(Head(entries), "timestamp"))
           after == SelectSeq(rest, LAMBDA m :
                       Field(m, "timestamp") > Field(Head(entries), "timestamp"))
       IN before \o <<Head(entries)>> \o after

RECURSIVE SortByTimestamp(_)
SortByTimestamp(entries) ==
  IF entries = <<>> THEN <<>>
  ELSE Insert(SortByTimestamp(SubSeq(entries, 1, Len(entries) - 1)),
              entries[Len(entries)])

----------------------------------------------------------------------------
(* Initial states: the state at the call, for each argument.               *)

\* No request handled yet, and none answered.
NoRequest == [endpoint |-> "", files |-> <<>>, id |-> 0, filename |-> <<>>]

NoResponse == [endpoint |-> "", status |-> 0, id |-> 0, content |-> <<>>]

\* uploaded_files = {}; converted_files = {}: the service as the module is
\* loaded.  A run of the converter alone leaves it so.
Globals ==
  /\ uploaded_files = <<>>
  /\ converted_files = <<>>
  /\ request = NoRequest
  /\ response = NoResponse

Locals ==
  /\ conversion_count = 0
  /\ results = <<>>
  /\ week_year = None
  /\ builder = <<>>
  /\ weight_entries = <<>>
  /\ k = 1
  /\ fit_bytes = None
  /\ raised = ""
  /\ returned = None

\* convert_fitbit_to_garmin([(filename, json_data)]) for every input file.
InitWeb ==
  /\ path = "web"
  /\ json_files \in {<<File(n, d)>> : n \in WebNames, d \in WebData}
  /\ idx = 0
  /\ pc = "for_file"

\* create_fit_file_from_json(json_file) for every input file.
InitScript ==
  /\ path = "script"
  /\ json_files \in {<<File(n, d)>> : n \in ScriptNames, d \in ScriptData}
  /\ idx = 1
  /\ pc = "s_load"

Init == Locals /\ Globals /\ (InitWeb \/ InitScript)

\* The input files of a batch: one record, two records out of order, a
\* record followed by {"foo": 1}, {"foo": 1} alone, a number where a record
\* should be, and null, under a name that carries a date and one that does
\* not.
BatchData ==
  {JsonList(<<DictEntry(1, 1800, -1, "06/01/24", "08:00:00")>>),
   JsonList(<<DictEntry(2, 1800, 5, "06/01/24", "08:00:00"),
              DictEntry(1, 1503, -1, "06/01/24", "08:00:00")>>),
   JsonList(<<DictEntry(1, 1800, -1, "06/01/24", "08:00:00"),
              OtherEntry("dict", {"foo"}, "", {})>>),
   JsonList(<<OtherEntry("dict", {"foo"}, "", {})>>),
   JsonList(<<OtherEntry("int", {}, "", {})>>),
   [type |-> "null", items |-> <<>>]}

BatchNames == {"weight-2024-06-01.json", "export.json"}

BatchFiles == {File(n, d) : n \in BatchNames, d \in BatchData}

\* convert_fitbit_to_garmin(json_files) for every batch of up to MaxBatch files.
InitBatch ==
  /\ Locals
  /\ Globals
  /\ path = "web"
  /\ json_files \in ListsOf(BatchFiles, MaxBatch)
  /\ idx = 0
  /\ pc = "for_file"

----------------------------------------------------------------------------
(* convert_fitbit_to_garmin and FitbitConverter.process_json_data.         *)

\* An exception leaves process_json_data; convert_fitbit_to_garmin's
\* `except Exception` prints and re-raises it, and the call ends.
MutRaiseSwallowed(e) ==
  /\ raised' = e
  /\ pc' = "for_file"

Raise(e) ==
  /\ raised' = e
  /\ pc' = "done"

\* for filename, json_data in json_files: the next file, and the call of
\* process_json_data with its fresh locals.
NextFile ==
  /\ pc = "for_file"
  /\ idx < Len(json_files)
  /\ idx' = idx + 1
  /\ pc' = "validate"
  /\ week_year' = None
  /\ builder' = <<>>
  /\ weight_entries' = <<>>
  /\ fit_bytes' = None
  /\ k' = 1
  /\ UNCHANGED service
  /\ UNCHANGED <<path, json_files, conversion_count, results, raised, returned>>

\* return results
ReturnResults ==
  /\ pc = "for_file"
  /\ idx = Len(json_files)
  /\ returned' = <<results>>
  /\ pc' = "done"
  /\ UNCHANGED service
  /\ UNCHANGED <<path, json_files, conversion_count, results, idx, week_year,
                 builder, weight_entries, k, fit_bytes, raised>>

\* if not self.validate_google_takeout_format(json_data): raise ValueError
MutValidateWarnsOnly ==
  /\ pc = "validate"
  /\ pc' = "week_year"
  /\ UNCHANGED service
  /\ UNCHANGED <<path, json_files, conversion_count, results, idx, week_year,
                 builder, weight_entries, k, fit_bytes, raised, returned>>

Validate ==
  /\ pc = "validate"
  /\ LET valid == validate_google_takeout_format(json_data)
     IN IF valid = "True" THEN pc' = "week_year" /\ raised' = raised
        ELSE IF valid = "False" THEN Raise("ValueError")
        ELSE Raise("TypeError")
  /\ UNCHANGED service
  /\ UNCHANGED <<path, json_files, conversion_count, results, idx, week_year,
                 builder, weight_entries, k, fit_bytes, returned>>

\* The fallback of week_year: the ISO week of the first entry's date, or
\* "1-2025" after strptime's ValueError.
FirstEntryWeekYear(first_entry) ==
  LET date_obj == StrptimeDate(chars(first_entry.date), 2)
  IN IF date_obj = <<>> THEN <<1, 2025>>
     ELSE <<IsoWeek(date_obj[1], date_obj[2], date_obj[3]), date_obj[1]>>

\* week_year = self.extract_week_year_from_filename(filename), and its
\* fallback; first_entry['date'] raises TypeError on a str or a list.
WeekYear ==
  /\ pc = "week_year"
  /\ LET from_name == extract_week_year_from_filename(filename)
         first_entry == json_data.items[1]
     IN IF from_name # None
        THEN week_year' = from_name /\ pc' = "file_id" /\ raised' = raised
        ELSE IF first_entry.type # "dict"
        THEN Raise("TypeError") /\ week_year' = week_year
        ELSE /\ week_year' = FirstEntryWeekYear(first_entry)
             /\ pc' = "file_id"
             /\ raised' = raised
  /\ UNCHANGED service
  /\ UNCHANGED <<path, json_files, conversion_count, results, idx, builder,
                 weight_entries, k, fit_bytes, returned>>

\* file_id_msg = FileIdMessage() ... time_created = first_entry['logId'];
\* builder.add(file_id_msg).  first_entry['logId'] raises TypeError on a
\* str or a list.
MutAddFileIdNotAdded ==
  /\ pc = "file_id"
  /\ pc' = "entries"
  /\ k' = 1
  /\ UNCHANGED service
  /\ UNCHANGED <<path, json_files, conversion_count, results, idx, week_year,
                 builder, weight_entries, fit_bytes, raised, returned>>

AddFileId ==
  /\ pc = "file_id"
  /\ LET first_entry == json_data.items[1]
     IN IF first_entry.type # "dict"
        THEN Raise("TypeError") /\ builder' = builder
        ELSE /\ builder' = Append(builder, FileIdMessage(<<first_entry.logId>>))
             /\ pc' = "entries"
             /\ raised' = raised
  /\ k' = 1
  /\ UNCHANGED service
  /\ UNCHANGED <<path, json_files, conversion_count, results, idx, week_year,
                 weight_entries, fit_bytes, returned>>

\* for entry in json_data: one record.  entry['logId'] and entry['weight']
\* raise KeyError on a dict without the key and TypeError on a str, a list
\* or a number.
ProcessEntry ==
  /\ pc = "entries"
  /\ k <= Len(json_data.items)
  /\ LET entry == json_data.items[k]
     IN IF entry.type # "dict"
        THEN Raise("TypeError") /\ UNCHANGED <<weight_entries, k>>
        ELSE IF ~({"logId", "weight"} \subseteq entry.keys)
        THEN Raise("KeyError") /\ UNCHANGED <<weight_entries, k>>
        ELSE /\ weight_entries' =
                  Append(weight_entries, WeightScaleMessage(entry.logId, entry))
             /\ k' = k + 1
             /\ UNCHANGED <<pc, raised>>
  /\ UNCHANGED service
  /\ UNCHANGED <<path, json_files, conversion_count, results, idx, week_year,
                 builder, fit_bytes, returned>>

\* weight_entries.sort(key=lambda x: x.timestamp), once the loop over the
\* records has ended (the same statement in both files).
MutSortSortsInput ==
  /\ pc \in {"entries", "s_entries"}
  /\ k > Len(json_data.items)
  /\ LET items == json_data.items
         n == Len(items)
         q == CHOOSE f \in [1..n -> 1..n] :
                /\ \A a, b \in 1..n : a # b => f[a] # f[b]
                /\ \A a, b \in 1..n : a < b => items[f[a]].logId <= items[f[b]].logId
     IN json_files' = [json_files EXCEPT
                         ![idx].json_data.items = [a \in 1..n |-> items[q[a]]]]
  /\ weight_entries' = SortByTimestamp(weight_entries)
  /\ pc' = "add"
  /\ k' = 1
  /\ UNCHANGED service
  /\ UNCHANGED <<path, conversion_count, results, idx, week_year,
                 builder, fit_bytes, raised, returned>>

Sort ==
  /\ pc \in {"entries", "s_entries"}
  /\ k > Len(json_data.items)
  /\ weight_entries' = SortByTimestamp(weight_entries)
  /\ pc' = "add"
  /\ k' = 1
  /\ UNCHANGED service
  /\ UNCHANGED <<path, json_files, conversion_count, results, idx, week_year,
                 builder, fit_bytes, raised, returned>>

\* for weight_msg in weight_entries: builder.add(weight_msg) (the same
\* statement in both files).
AddWeight ==
  /\ pc = "add"
  /\ k <= Len(weight_entries)
  /\ builder' = Append(builder, weight_entries[k])
  /\ k' = k + 1
  /\ UNCHANGED service
  /\ UNCHANGED <<path, json_files, conversion_count, results, idx, pc,
                 week_year, weight_entries, fit_bytes, raised, returned>>

\* fit_bytes = builder.build().to_bytes(); self.conversion_count += 1;
\* return fit_bytes, len(weight_entries)
MutBuildNumbersFile ==
  /\ pc = "add"
  /\ path = "web"
  /\ k > Len(weight_entries)
  /\ fit_bytes' = <<[builder EXCEPT ![1].values[6] = conversion_count]>>
  /\ conversion_count' = conversion_count + 1
  /\ pc' = "append"
  /\ UNCHANGED service
  /\ UNCHANGED <<path, json_files, results, idx, week_year, builder,
                 weight_entries, k, raised, returned>>

Build ==
  /\ pc = "add"
  /\ path = "web"
  /\ k > Len(weight_entries)
  /\ fit_bytes' = <<builder>>
  /\ conversion_count' = conversion_count + 1
  /\ pc' = "append"
  /\ UNCHANGED service
  /\ UNCHANGED <<path, json_files, results, idx, week_year, builder,
                 weight_entries, k, raised, returned>>

\* output_filename = converter.get_output_filename(filename);
\* results.append((output_filename, fit_bytes))
MutAppendResultFirst ==
  /\ pc = "append"
  /\ results' = <<(<<get_output_filename(filename), fit_bytes[1]>>)>> \o results
  /\ pc' = "for_file"
  /\ UNCHANGED service
  /\ UNCHANGED <<path, json_files, conversion_count, idx, week_year, builder,
                 weight_entries, k, fit_bytes, raised, returned>>

AppendResult ==
  /\ pc = "append"
  /\ results' = Append(results, <<get_output_filename(filename), fit_bytes[1]>>)
  /\ pc' = "for_file"
  /\ UNCHANGED service
  /\ UNCHANGED <<path, json_files, conversion_count, idx, week_year, builder,
                 weight_entries, k, fit_bytes, raised, returned>>

NextWeb ==
  \/ NextFile
  \/ ReturnResults
  \/ Validate
  \/ WeekYear
  \/ AddFileId
  \/ ProcessEntry
  \/ Sort
  \/ AddWeight
  \/ Build
  \/ AppendResult

----------------------------------------------------------------------------
(* tested/convert_json_to_fit.py: create_fit_file_from_json.               *)

\* if not data: return None; week_year = get_week_number_from_filename(...);
\* if not week_year: return None.  The ValueError of int() or datetime()
\* is not caught.
ScriptLoad ==
  /\ pc = "s_load"
  /\ LET from_name == get_week_number_from_filename(filename)
     IN IF json_data.items = <<>> \/ from_name = None
        THEN pc' = "done" /\ UNCHANGED <<week_year, raised>>
        ELSE IF from_name = <<-1>>
        THEN Raise("ValueError") /\ week_year' = week_year
        ELSE week_year' = from_name /\ pc' = "s_file_id" /\ raised' = raised
  /\ UNCHANGED service
  /\ UNCHANGED <<path, json_files, conversion_count, results, idx, builder,
                 weight_entries, k, fit_bytes, returned>>

\* file_id_msg = FileIdMessage() ...; time_created is assigned only when
\* the first entry's timestamp is truthy; builder.add(file_id_msg).
ScriptAddFileId ==
  /\ pc = "s_file_id"
  /\ LET first_entry == json_data.items[1]
     IN IF DateIndexError(first_entry.date)
        THEN Raise("IndexError") /\ builder' = builder
        ELSE LET creation_timestamp ==
                   convert_date_to_unix_timestamp(first_entry.date, first_entry.time)
             IN /\ builder' = Append(builder,
                      FileIdMessage(IF Truthy(creation_timestamp)
                                    THEN creation_timestamp ELSE None))
                /\ pc' = "s_entries"
                /\ raised' = raised
  /\ k' = 1
  /\ UNCHANGED service
  /\ UNCHANGED <<path, json_files, conversion_count, results, idx, week_year,
                 weight_entries, fit_bytes, returned>>

\* for entry in data: one record; `if not unix_timestamp: continue`.
ScriptEntry ==
  /\ pc = "s_entries"
  /\ k <= Len(json_data.items)
  /\ LET entry == json_data.items[k]
     IN IF DateIndexError(entry.date)
        THEN Raise("IndexError") /\ UNCHANGED <<weight_entries, k>>
        ELSE LET unix_timestamp ==
                   convert_date_to_unix_timestamp(entry.date, entry.time)
             IN /\ weight_entries' =
                     IF Truthy(unix_timestamp)
                     THEN Append(weight_entries,
                                 WeightScaleMessage(unix_timestamp[1], entry))
                     ELSE weight_entries
                /\ k' = k + 1
                /\ UNCHANGED <<pc, raised>>
  /\ UNCHANGED service
  /\ UNCHANGED <<path, json_files, conversion_count, results, idx, week_year,
                 builder, fit_bytes, returned>>

\* fit_file = builder.build(); fit_file.to_file(output_path); return output_path
ScriptBuild ==
  /\ pc = "add"
  /\ path = "script"
  /\ k > Len(weight_entries)
  /\ fit_bytes' = <<builder>>
  /\ results' = Append(results, <<WeekName(week_year), builder>>)
  /\ returned' = <<WeekName(week_year)>>
  /\ pc' = "done"
  /\ UNCHANGED service
  /\ UNCHANGED <<path, json_files, conversion_count, idx, week_year, builder,
                 weight_entries, k, raised>>

Next ==
  \/ NextWeb
  \/ ScriptLoad
  \/ ScriptAddFileId
  \/ ScriptEntry
  \/ ScriptBuild

Spec == Init /\ [][Next]_vars

SpecBatch == InitBatch /\ [][NextWeb]_vars

----------------------------------------------------------------------------
(* Properties.                                                              *)

IsWeight(m) == m.kind = "weight_scale"

IsFileId(m) == m.kind = "file_id"

Timestamp(m) == Field(m, "timestamp")

\* The weight records added to the builder so far, in the order added.
BuilderWeights == SelectSeq(builder, IsWeight)

\* The input's records as the command-line script converts them, in input
\* order: the records whose timestamp is falsy are left out.
RECURSIVE ScriptMessages(_)
ScriptMessages(items) ==
  IF items = <<>> THEN <<>>
  ELSE LET ts == convert_date_to_unix_timestamp(Head(items).date, Head(items).time)
       IN (IF Truthy(ts) THEN <<WeightScaleMessage(ts[1], Head(items))>> ELSE <<>>)
          \o ScriptMessages(Tail(items))

\* The input's records converted, in input order.
InputMessages ==
  IF path = "web"
  THEN [j \in 1..Len(json_data.items) |->
          WeightScaleMessage(json_data.items[j].logId, json_data.items[j])]
  ELSE ScriptMessages(json_data.items)

WithTimestamp(msgs, t) == SelectSeq(msgs, LAMBDA m : Timestamp(m) = t)

IsPrefix(a, b) == Len(a) <= Len(b) /\ SubSeq(b, 1, Len(a)) = a

\* Every weight message the run holds: built, sorted or added to the builder.
WeightMessages ==
  {weight_entries[j] : j \in 1..Len(weight_entries)}
  \cup {m \in {builder[j] : j \in 1..Len(builder)} : IsWeight(m)}

\* C1: the fields of every WeightScale message are assigned in the order
\* timestamp, weight, bone_mass, muscle_mass, percent_fat (when present),
\* percent_hydration, in the web service and in the script.
C1_FieldOrder ==
  \A m \in WeightMessages :
    \/ m.names = <<"timestamp", "weight", "bone_mass", "muscle_mass",
                   "percent_hydration">>
    \/ m.names = <<"timestamp", "weight", "bone_mass", "muscle_mass",
                   "percent_fat", "percent_hydration">>

\* A file is complete and holds a record with percent_fat and one without.
C1_Witness ==
  /\ pc = "done"
  /\ fit_bytes # None
  /\ \E m \in WeightMessages : HasField(m, "percent_fat")
  /\ \E m \in WeightMessages : ~HasField(m, "percent_fat")

\* C2: the weight records are added to the builder in ascending timestamp
\* order, and records of equal timestamp in the order they have in the input.
C2_AscendingStable ==
  LET out == BuilderWeights
  IN /\ \A i, j \in 1..Len(out) : i < j => Timestamp(out[i]) <= Timestamp(out[j])
     /\ \A i \in 1..Len(out) :
          IsPrefix(WithTimestamp(out, Timestamp(out[i])),
                   WithTimestamp(InputMessages, Timestamp(out[i])))

\* Two different records of the same timestamp have both been added.
C2_Witness ==
  /\ Len(BuilderWeights) = 2
  /\ Timestamp(BuilderWeights[1]) = Timestamp(BuilderWeights[2])
  /\ BuilderWeights[1] # BuilderWeights[2]

\* The shape the validator is to accept: a non-empty array whose first
\* element is an object with the four required keys.
IsTakeoutShape(data) ==
  /\ data.type = "list"
  /\ data.items # <<>>
  /\ data.items[1].type = "dict"
  /\ {"logId", "weight", "date", "time"} \subseteq data.items[1].keys

\* C3: validate_google_takeout_format returns valid exactly for a non-empty
\* array whose first element is an object with the keys logId, weight, date
\* and time (refuted: a str or a list that holds the four names is accepted,
\* and a number raises TypeError).
C3_ValidIffFirstObject ==
  (path = "web" /\ pc = "validate") =>
    ((validate_google_takeout_format(json_data) = "True")
       <=> IsTakeoutShape(json_data))

\* C4: when the validator rejects the input, process_json_data raises the
\* invalid-format ValueError with no message built, nothing added to the
\* builder and no bytes, and conversion_count is what it was at the call
\* (one per file converted before); the call is over.  When the validator
\* itself raises, the same holds with its TypeError.
C4_InvalidRaisesBeforeOutput ==
  /\ (path = "web" /\ pc = "validate") => conversion_count = idx - 1
  /\ (path = "web" /\ idx >= 1 /\ pc # "validate"
        /\ validate_google_takeout_format(json_data) # "True") =>
       /\ pc = "done"
       /\ raised = (IF validate_google_takeout_format(json_data) = "False"
                    THEN "ValueError" ELSE "TypeError")
       /\ builder = <<>>
       /\ weight_entries = <<>>
       /\ fit_bytes = None
       /\ returned = None
       /\ conversion_count = idx - 1
       /\ Len(results) = idx - 1

\* The second file of a batch is [{"foo": 1}] and has been rejected after
\* the first was converted.
C4_Witness ==
  /\ idx = 2
  /\ json_data = JsonList(<<OtherEntry("dict", {"foo"}, "", {})>>)
  /\ raised = "ValueError"
  /\ conversion_count = 1

\* The smallest timestamp of the input's converted records.
MinTimestamp ==
  CHOOSE t \in {Timestamp(InputMessages[j]) : j \in 1..Len(InputMessages)} :
    \A j \in 1..Len(InputMessages) : t <= Timestamp(InputMessages[j])

\* The input's elements are all weight records.
AllRecords ==
  \A j \in 1..Len(json_data.items) :
    /\ json_data.items[j].type = "dict"
    /\ {"logId", "weight", "date", "time"} \subseteq json_data.items[j].keys

\* C5 as claimed: time_created is the minimum timestamp over the input's
\* records, in any input order.
C5_TimeCreatedIsMinimum ==
  (path = "web" /\ builder # <<>> /\ AllRecords) =>
    /\ HasField(builder[1], "time_created")
    /\ Field(builder[1], "time_created") = MinTimestamp

\* C5, amended: time_created is the timestamp of the first record of the
\* input in input order: its logId in the web service; in the script its
\* parsed date and time, and no time_created at all when that is None or 0.
C5_TimeCreatedIsFirstEntry ==
  builder # <<>> =>
    LET first_entry == json_data.items[1]
        parsed == convert_date_to_unix_timestamp(first_entry.date, first_entry.time)
    IN /\ IsFileId(builder[1])
       /\ path = "web" =>
            /\ HasField(builder[1], "time_created")
            /\ Field(builder[1], "time_created") = first_entry.logId
       /\ (path = "script" /\ Truthy(parsed)) =>
            /\ HasField(builder[1], "time_created")
            /\ Field(builder[1], "time_created") = parsed[1]
       /\ (path = "script" /\ ~Truthy(parsed)) =>
            ~HasField(builder[1], "time_created")

\* The first record of the input is later than the second, and the file is
\* complete.
C5_Witness ==
  /\ path = "web"
  /\ fit_bytes # None
  /\ Len(json_data.items) = 2
  /\ json_data.items[1].logId > json_data.items[2].logId
  /\ Field(builder[1], "time_created") = json_data.items[1].logId

\* The name the pipeline is to return for a file: from the week of the
\* date in the file name, else from the week of the first record's date,
\* else the fallback.
ExpectedName(file) ==
  LET from_name == extract_week_year_from_filename(file.filename)
      date_obj == StrptimeDate(chars(file.json_data.items[1].date), 2)
  IN IF from_name # None THEN WeekName(from_name)
     ELSE IF date_obj # <<>>
          THEN WeekName(<<IsoWeek(date_obj[1], date_obj[2], date_obj[3]), date_obj[1]>>)
          ELSE FallbackName

\* C6: the output name is "Weight {week}-{year} Fitbit.fit" when the week
\* is derivable from the file name or, failing that, from the first
\* record's date, and the fallback only when neither is (refuted: the week
\* process_json_data derives from the first record's date is never used).
C6_NameFromFileOrFirstDate ==
  path = "web" =>
    \A j \in 1..Len(results) : results[j][1] = ExpectedName(json_files[j])

\* Half a tenth at most lies between the kilograms (tenths) and the pounds
\* (tenths) divided by 2.2046.
NearestTenthKg(kg, pounds) ==
  /\ 2 * (kg * 22046 - pounds * 10000) <= 22046
  /\ 2 * (pounds * 10000 - kg * 22046) <= 22046

\* The message is the record converted: its timestamp the logId, its weight
\* the pounds in kilograms, its body fat absent for a missing or 0 value and
\* the nearest tenth otherwise.
IsConverted(m, entry) ==
  /\ Timestamp(m) = entry.logId
  /\ NearestTenthKg(Field(m, "weight"), entry.weight)
  /\ HasField(m, "percent_fat") <=> ("fat" \in entry.keys /\ entry.fat # 0)
  /\ HasField(m, "percent_fat") =>
       /\ 10 * Field(m, "percent_fat") - entry.fat <= 5
       /\ entry.fat - 10 * Field(m, "percent_fat") <= 5

\* C7: the file the web service returns holds exactly one weight record per
\* input record, each the conversion of its record (timestamp = logId), in
\* ascending timestamp order.
C7_RecordsAreSortedInput ==
  (path = "web" /\ fit_bytes # None) =>
    LET out == SelectSeq(fit_bytes[1], IsWeight)
        inp == json_data.items
    IN /\ Len(out) = Len(inp)
       /\ \E pi \in Permutations(1..Len(inp)) :
            \A i \in 1..Len(inp) : IsConverted(out[i], inp[pi[i]])
       /\ \A i, j \in 1..Len(out) : i < j => Timestamp(out[i]) <= Timestamp(out[j])

\* A file of two records given latest first, one with body fat, is returned.
C7_Witness ==
  /\ path = "web"
  /\ returned # None
  /\ Len(results) = 1
  /\ Len(json_data.items) = 2
  /\ json_data.items[1].logId > json_data.items[2].logId
  /\ \E j \in 1..2 : "fat" \in json_data.items[j].keys /\ json_data.items[j].fat = 25
  /\ \E j \in 1..2 : json_data.items[j].weight = 1503

\* C8: a record's message carries percent_fat exactly when the record has a
\* fat value that is not 0, and then the value is the fat value rounded to
\* one decimal: 0.05 gives 0.1.  Stated of the step that builds the message.
C8_BodyFatNormalized ==
  [][(pc \in {"entries", "s_entries"}
        /\ Len(weight_entries') = Len(weight_entries) + 1) =>
       LET entry == json_data.items[k]
           m == weight_entries'[Len(weight_entries')]
       IN /\ HasField(m, "percent_fat")
               <=> ("fat" \in entry.keys /\ entry.fat # 0)
          /\ HasField(m, "percent_fat") =>
               /\ 10 * Field(m, "percent_fat") - entry.fat <= 5
               /\ entry.fat - 10 * Field(m, "percent_fat") <= 5
               /\ entry.fat = 5 => Field(m, "percent_fat") = 1
               /\ entry.fat = 4 => Field(m, "percent_fat") = 0]_vars

\* A record of fat 0.05 has given a message with percent_fat 0.1 and a
\* record of fat 0 a message without the field.
C8_Witness ==
  /\ path = "web"
  /\ pc = "entries"
  /\ Len(weight_entries) = 2
  /\ json_data.items[1].fat = 5
  /\ HasField(weight_entries[1], "percent_fat")
  /\ Field(weight_entries[1], "percent_fat") = 1
  /\ "fat" \in json_data.items[2].keys
  /\ json_data.items[2].fat = 0
  /\ ~HasField(weight_entries[2], "percent_fat")

\* C9: the builder holds the file-identity message first and once: every
\* message after the first is a weight record, and nothing is added before it.
C9_OneFileIdFirst ==
  /\ builder # <<>> =>
       /\ IsFileId(builder[1])
       /\ \A j \in 2..Len(builder) : IsWeight(builder[j])
  /\ (weight_entries # <<>> \/ fit_bytes # None) => builder # <<>>

\* A complete file of the file-identity message and two weight records.
C9_Witness ==
  /\ fit_bytes # None
  /\ Len(fit_bytes[1]) = 3
  /\ IsFileId(fit_bytes[1][1])
  /\ IsWeight(fit_bytes[1][3])

\* The file at position j of the batch converts without an exception.
Converts(file) ==
  /\ validate_google_takeout_format(file.json_data) = "True"
  /\ \A j \in 1..Len(file.json_data.items) :
       /\ file.json_data.items[j].type = "dict"
       /\ {"logId", "weight"} \subseteq file.json_data.items[j].keys

\* C10: when an input of the batch fails, the exception leaves
\* convert_fitbit_to_garmin: the call is over, no result list is returned
\* (the results of the inputs before it stay undelivered), the failing
\* input is the first that fails, and no later input is begun.
C10_AbortsOnFirstFailure ==
  /\ (path = "web" /\ raised # "") =>
       /\ pc = "done"
       /\ returned = None
       /\ ~Converts(json_files[idx])
       /\ \A j \in 1..(idx - 1) : Converts(json_files[j])
       /\ Len(results) = idx - 1
       /\ conversion_count = idx - 1
       /\ ~ENABLED NextFile
  /\ (path = "web" /\ returned # None) =>
       \A j \in 1..Len(json_files) : Converts(json_files[j])

\* The second of three inputs has failed: one result is computed and not
\* returned, and the third input is not begun.
C10_Witness ==
  /\ raised # ""
  /\ idx = 2
  /\ Len(json_files) = 3
  /\ Len(results) = 1
  /\ returned = None

\* What process_json_data returns for a file that converts: the file
\* identity message, then the records converted and sorted by timestamp.
ExpectedBytes(file) ==
  LET items == file.json_data.items
  IN <<FileIdMessage(<<items[1].logId>>)>>
     \o SortByTimestamp([j \in 1..Len(items) |->
                           WeightScaleMessage(items[j].logId, items[j])])

\* The pair of a file that converts.
ExpectedPair(file) == <<get_output_filename(file.filename), ExpectedBytes(file)>>

\* The call has returned one pair per input, in input order.
OnePairPerInput ==
  /\ returned # None
  /\ Len(returned[1]) = Len(json_files)
  /\ \A i \in 1..Len(json_files) : returned[1][i] = ExpectedPair(json_files[i])

Parses(entry) ==
  /\ \/ StrptimeDate(chars(entry.date), 2) # <<>>
     \/ StrptimeDate(chars(entry.date), 4) # <<>>
  /\ StrptimeTime(chars(entry.time)) # <<>>

\* The records whose date/time parses, converted, in input order.
RECURSIVE ParsedMessages(_)
ParsedMessages(items) ==
  IF items = <<>> THEN <<>>
  ELSE (IF Parses(Head(items))
        THEN <<WeightScaleMessage(
                 convert_date_to_unix_timestamp(Head(items).date,
                                                Head(items).time)[1],
                 Head(items))>>
        ELSE <<>>)
       \o ParsedMessages(Tail(items))

\* C12: in the date/time-string path, for a non-empty file whose name gives
\* a week, the file is not aborted by a record that fails to parse, and the
\* output holds exactly the records whose date/time matches one of the two
\* patterns (the record of 1970-01-01 00:00:00 included), sorted.
C12_LeftOutIffUnparsable ==
  (/\ path = "script"
   /\ pc = "done"
   /\ json_data.items # <<>>
   /\ get_week_number_from_filename(filename) \notin {None, <<-1>>})
  => /\ raised = ""
     /\ returned # None
     /\ BuilderWeights = SortByTimestamp(ParsedMessages(json_data.items))

\* C15: the bytes of an input depend only on its records, and its pair only
\* on its name and its records: two inputs of a batch with the same records
\* have the same bytes, and the same input converted again by the same
\* converter, conversion_count having changed in between, has the same pair.
C15_OutputDependsOnInputOnly ==
  path = "web" =>
    \A i, j \in 1..Len(results) :
      /\ json_files[i].json_data = json_files[j].json_data
           => results[i][2] = results[j][2]
      /\ json_files[i] = json_files[j] => results[i] = results[j]

\* The first input has been converted again as the third, after another
\* input, by a converter whose conversion_count has reached 3.
C15_Witness ==
  /\ path = "web"
  /\ Len(results) = 3
  /\ conversion_count = 3
  /\ json_files[1] = json_files[3]
  /\ json_files[2].json_data # json_files[1].json_data
  /\ results[1] = results[3]

\* C16: no step of process_json_data, convert_fitbit_to_garmin or the
\* script changes the input: the batch, the order of every input's records
\* and every field of every record stay as they were at the call, through
\* the return or the exception that ends it.
C16_InputUnchanged == [][json_files' = json_files]_vars

\* A call has returned for an input whose two records are out of order:
\* the output holds them sorted, the input still holds them as given.
C16_Witness ==
  /\ path = "web"
  /\ returned # None
  /\ Len(json_files[1].json_data.items) = 2
  /\ json_files[1].json_data.items[1].logId > json_files[1].json_data.items[2].logId
  /\ Timestamp(returned[1][1][2][2]) < Timestamp(returned[1][1][2][3])

----------------------------------------------------------------------------
(* backend/main.py: the upload, convert and download endpoints.  A handler *)
(* is one step: it runs from the request to the response, and what it      *)
(* writes to uploaded_files or converted_files it writes in one statement. *)

\* if len(files) > 2
MaxUploadFiles == 2

\* The uploads the service is followed through.
MaxUploads == 2

\* The conversions a store is looked at with.
MaxConversions == 1

\* str.endswith
EndsWith(c, suffix) ==
  /\ Len(c) >= Len(suffix)
  /\ SubSeq(c, Len(c) - Len(suffix) + 1, Len(c)) = suffix

\* An UploadFile: its filename and its content, which is the UTF-8 text of
\* a JSON value ("json", with the value json.loads returns for it), UTF-8
\* text that is no JSON ("not_json"), or bytes that are no UTF-8
\* ("not_utf8").
UploadFile(name, kind, data) ==
  [filename |-> name, kind |-> kind, json_data |-> data]

UploadNames == {"export.json", "export.txt"}

UploadJson ==
  {JsonList(<<DictEntry(1, 1800, -1, "06/01/24", "08:00:00")>>),
   JsonList(<<OtherEntry("dict", {"foo"}, "", {})>>)}

UploadedFiles ==
  {UploadFile(n, "json", d) : n \in UploadNames, d \in UploadJson}
  \cup {UploadFile(n, kind, [type |-> "null", items |-> <<>>]) :
          n \in UploadNames, kind \in {"not_json", "not_utf8"}}

\* The files of an /upload request: none, one, two, or one file more than
\* allowed.
UploadRequests ==
  ListsOf(UploadedFiles, MaxUploadFiles)
  \cup {[i \in 1..(MaxUploadFiles + 1) |-> f] : f \in UploadedFiles}

\* The first file whose content json.loads(content.decode('utf-8')) does
\* not accept, 0 when every file is accepted.
FirstUnparsed(files) ==
  LET bad == {i \in 1..Len(files) : files[i].kind # "json"}
  IN IF bad = {} THEN 0 ELSE CHOOSE i \in bad : \A j \in bad : i <= j

\* The status upload_files answers with.  UnicodeDecodeError is no
\* json.JSONDecodeError: it reaches `except Exception` and becomes a 500.
UploadStatus(files) ==
  IF Len(files) > MaxUploadFiles THEN 400
  ELSE IF Len(files) = 0 THEN 400
  ELSE IF \E i \in 1..Len(files) : ~EndsWith(chars(files[i].filename), chars(".json"))
  THEN 400
  ELSE IF FirstUnparsed(files) = 0 THEN 200
  ELSE IF files[FirstUnparsed(files)].kind = "not_json" THEN 400
  ELSE 500

\* file_data: {"filename": file.filename, "data": json_data} per file, in
\* the order of the request.
FileData(files) ==
  [i \in 1..Len(files) |-> File(files[i].filename, files[i].json_data)]

\* POST /upload.  upload_id = str(uuid.uuid4()) is an id no upload has yet;
\* uploaded_files[upload_id] = file_data is reached only when no file has
\* raised.
Upload(files) ==
  /\ UploadStatus(files) = 200 => Len(uploaded_files) < MaxUploads
  /\ request' = [endpoint |-> "upload", files |-> files, id |-> 0, filename |-> <<>>]
  /\ IF UploadStatus(files) = 200
     THEN /\ uploaded_files' = Append(uploaded_files, FileData(files))
          /\ response' = [endpoint |-> "upload", status |-> 200,
                          id |-> Len(uploaded_files) + 1, content |-> <<>>]
     ELSE /\ uploaded_files' = uploaded_files
          /\ response' = [endpoint |-> "upload", status |-> UploadStatus(files),
                          id |-> 0, content |-> <<>>]
  /\ UNCHANGED converted_files
  /\ UNCHANGED <<path, json_files, conversion_count, results, idx, pc,
                 week_year, builder, weight_entries, k, fit_bytes, raised,
                 returned>>

\* The status convert_files answers with.  Past the check of the upload id
\* the handler evaluates fingerprint_manager.check_rate_limit, a method that
\* class FingerprintManager does not define (fingerprint.py has it, with
\* record_conversion and detect_suspicious_activity, commented out): the
\* AttributeError reaches `except Exception`, which turns every exception
\* that is no HTTPException into a 500.  The call of the converter and the
\* assignment to converted_files are not reached.
ConvertStatus(upload_id) ==
  IF upload_id \notin DOMAIN uploaded_files THEN 404 ELSE 500

\* POST /convert
Convert(upload_id) ==
  /\ request' = [endpoint |-> "convert", files |-> <<>>, id |-> upload_id,
                 filename |-> <<>>]
  /\ response' = [endpoint |-> "convert", status |-> ConvertStatus(upload_id),
                  id |-> 0, content |-> <<>>]
  /\ UNCHANGED <<uploaded_files, converted_files>>
  /\ UNCHANGED <<path, json_files, conversion_count, results, idx, pc,
                 week_year, builder, weight_entries, k, fit_bytes, raised,
                 returned>>

\* for output_filename, fit_bytes in converted_files[conversion_id]:
\* if output_filename == filename: return Response(content=fit_bytes):
\* the position of the pair that is returned, 0 when the loop ends.
Found(pairs, name) ==
  LET found == {i \in 1..Len(pairs) : pairs[i][1] = name}
  IN IF found = {} THEN 0 ELSE CHOOSE i \in found : \A j \in found : i <= j

\* GET /download/{conversion_id}/{filename}
Download(conversion_id, name) ==
  /\ request' = [endpoint |-> "download", files |-> <<>>, id |-> conversion_id,
                 filename |-> name]
  /\ response' =
       IF conversion_id \notin DOMAIN converted_files
       THEN [endpoint |-> "download", status |-> 404, id |-> 0, content |-> <<>>]
       ELSE LET pairs == converted_files[conversion_id]
                i == Found(pairs, name)
            IN IF i = 0
               THEN [endpoint |-> "download", status |-> 404, id |-> 0,
                     content |-> <<>>]
               ELSE [endpoint |-> "download", status |-> 200, id |-> 0,
                     content |-> pairs[i][2]]
  /\ UNCHANGED <<uploaded_files, converted_files>>
  /\ UNCHANGED <<path, json_files, conversion_count, results, idx, pc,
                 week_year, builder, weight_entries, k, fit_bytes, raised,
                 returned>>

\* The file names a download asks for: the two shapes of output name, and
\* a name no conversion gives.
DownloadNames == {FallbackName, <<"Weight", 22, 2024, "Fitbit.fit">>,
                  <<"Weight", 1, 2025, "Fitbit.fit">>}

\* No run of the converter is under way.
NoConversion ==
  /\ Locals
  /\ path = "service"
  /\ json_files = <<>>
  /\ idx = 0
  /\ pc = "done"

InitService == NoConversion /\ Globals

NextService ==
  \/ \E files \in UploadRequests : Upload(files)
  \/ \E upload_id \in 1..(MaxUploads + 1) : Convert(upload_id)
  \/ \E conversion_id \in 1..(MaxConversions + 1), name \in DownloadNames :
       Download(conversion_id, name)

SpecService == InitService /\ [][NextService]_vars

\* The inputs of an upload that converts: two names of the same ISO week, a
\* name of another week, two names that give no week, and two record sets.
StoredNames == {"weight-2024-06-01.json", "weight-2024-06-02.json",
                "weight-2021-01-01.json", "export.json",
                "weight-2024-13-01.json"}

StoredData ==
  {JsonList(<<DictEntry(1, 1800, -1, "06/01/24", "08:00:00")>>),
   JsonList(<<DictEntry(2, 1503, 5, "06/01/24", "08:00:00")>>)}

\* converted_results = convert_fitbit_to_garmin(json_files), for the
\* uploads of one or two files that all convert: one pair per file, in the
\* order of the upload.
ConvertedResults ==
  {[i \in 1..Len(batch) |-> ExpectedPair(batch[i])] :
     batch \in ListsOf({File(n, d) : n \in StoredNames, d \in StoredData},
                       MaxUploadFiles) \ {<<>>}}

\* converted_files[conversion_id] = converted_results: the stores that the
\* assignment of convert_files leaves, which download_file then reads.
InitDownload ==
  /\ NoConversion
  /\ uploaded_files = <<>>
  /\ converted_files \in ListsOf(ConvertedResults, MaxConversions) \ {<<>>}
  /\ request = NoRequest
  /\ response = NoResponse

NextDownload ==
  \E conversion_id \in 1..(MaxConversions + 1), name \in DownloadNames :
    Download(conversion_id, name)

SpecDownload == InitDownload /\ [][NextDownload]_vars

----------------------------------------------------------------------------
(* Properties of the service.                                               *)

\* The upload holds an input that validate_google_takeout_format does not
\* accept.
HasInvalidInput(file_data) ==
  \E i \in 1..Len(file_data) :
    validate_google_takeout_format(file_data[i].json_data) # "True"

\* C14: /convert answers an upload that holds an input failing validation
\* with a status of the 4xx range.
C14_InvalidFormatIs4xx ==
  (/\ request.endpoint = "convert"
   /\ request.id \in DOMAIN uploaded_files
   /\ HasInvalidInput(uploaded_files[request.id]))
  => response.status \in 400..499

\* The request is one the claim says is rejected: more than 2 files, no
\* file, a name that does not end in .json, or a content that is no JSON.
Rejected(files) ==
  \/ Len(files) > 2
  \/ Len(files) = 0
  \/ \E i \in 1..Len(files) : ~EndsWith(chars(files[i].filename), chars(".json"))
  \/ \E i \in 1..Len(files) : files[i].kind # "json"

\* C17: an /upload request that is to be rejected is answered 400 and
\* leaves uploaded_files as it was; any other is answered with an upload_id
\* that uploaded_files maps, from then on, to the files of the request in
\* the order of the request, and that is the only entry added.
C17_UploadAllOrNothing ==
  [][request'.endpoint = "upload" =>
       IF Rejected(request'.files)
       THEN /\ response'.status = 400
            /\ uploaded_files' = uploaded_files
       ELSE /\ response'.status = 200
            /\ response'.id \notin DOMAIN uploaded_files
            /\ uploaded_files' = Append(uploaded_files, FileData(request'.files))
            /\ uploaded_files'[response'.id] = FileData(request'.files)]_vars

====
